---- MODULE Spec2Model ----
(***************************************************************************)
(* Batch-tracking pipeline of the scraper: BatchManager (batch_manager.py) *)
(* driven by the interactive loop (scraper_interactive.py) and by the      *)
(* parallel scraper's main loop (scraper_parallel.py).                     *)
(*                                                                         *)
(* Catalog rows are identified by their position 0..N-1 in                 *)
(* master_projects.csv; excel_integrator keys the catalog by project_id,   *)
(* so project ids are unique and the position stands for the id.           *)
(* batch_id is the cursor value (the code formats it as "%03d").           *)
(*                                                                         *)
(* The WebDriver pool (driver_pool.py) and the fetch workers that use it   *)
(* are a second specification, PoolSpec, over the pool's own variables:    *)
(* worker threads, the cleanup thread and the thread calling close_all     *)
(* take their steps in any order.  PoolSpecTwice adds callers that return  *)
(* a handle a second time.                                                 *)
(*                                                                         *)
(* MergeSpec covers the two merges of the batch files with the catalog     *)
(* (BatchManager._merge_completed_data and regenerate_indexes.py), and     *)
(* IndexSpec the global search index of data_converter.py.  Each           *)
(* specification leaves the other parts' variables at their initial        *)
(* values.                                                                 *)
(***************************************************************************)
EXTENDS Integers, Sequences, FiniteSets, TLC

\* ---------------------------------------------------------------- bounds
MaxItems == 3
MaxBatchSize == 2
MaxFaults == 1
MaxPoolSize == 2
MaxHandles == 3
MaxFetches == 2
MaxMergeItems == 2
MaxFiles == 3
MaxAttempts == 2

\* ------------------------------------------------------------- constants
max_workers == 2
PENDING == "pending"
PROCESSING == "processing"
COMPLETED == "completed"
FAILED == "failed"

VARIABLES
  N,                 \* len(master_projects)
  batch_size,        \* BatchManager.batch_size
  pc,                \* position of the process: off, menu, loop, items, pscrape
  driver,            \* which script runs: interactive or parallel
  scraped_df,        \* in-memory checkpoint table (BatchManager.scraped_df)
  scraped_csv,       \* persisted checkpoint table (scraped_projects.csv)
  batch_status,      \* in-memory batch status (BatchManager.batch_status)
  batch_status_file, \* persisted batch status (output/batch_status.json)
  files,             \* batch output files in output/details
  cur,               \* batch_info the loop is processing
  idx,               \* next catalog position of the item loop
  batch_results,     \* records collected for the batch in progress
  log,               \* history: id and range of each batch a complete_batch recorded
  completedCount,    \* history: times each item was set to completed
  refetched,         \* history: items fetched again after their latest reset
  wasReset,          \* history: items reset to pending by reset_failed_projects
  runDispatch,       \* history: dispatches of the batch at the cursor in the running loop
  midStop,           \* history: some crash or interrupt hit a batch in progress
  crashedMid,        \* history: batch_info in progress at the latest crash hitting one
  resetSinceCrash,   \* history: reset_failed_projects ran since that crash
  firstAfterCrash,   \* history: first batch dispatched after that crash (0: none)
  writeFailed,       \* history: batch whose latest complete_batch write failed
  finished,          \* history: the latest loop ended with get_next_batch = None
  nfaults,           \* history: crashes, interrupts and batch-level failures so far
  pool_size,         \* DriverPool.pool_size (0: no pool)
  style,             \* which fetch worker code uses the pool
  available_drivers, \* DriverPool.available_drivers, a Queue(maxsize=pool_size)
  busy_drivers,      \* DriverPool.busy_drivers
  hstate,            \* each handle: none (not created), alive, quit
  wpc,               \* position of each worker thread
  wdrv,              \* handle each worker thread holds (0: none)
  reaper,            \* cleanup thread: position, temp_drivers, drivers_to_remove
  closer,            \* thread in close_all: position and busy_drivers_copy
  nfetch,            \* history: fetches started so far
  passHist,          \* history: handles the cleanup pass under way found idle
                     \*          and fresh, less those other threads took since
  lastAttempts,      \* history: strategies _create_driver tried in each
                     \*          worker's get_driver call under way
  master_projects,   \* merge: the catalog rows
  details,           \* merge: the batch files of output/details as listed
  completed_batches, \* merge: completed_batches of batch_status.json
  combined_json,     \* merge: combined_projects.json
  merged_projects,   \* merge: the list regenerate_all builds its indexes on
  index_input,       \* index: the projects of combined_projects.json
  indexed,           \* index: the projects of the last index build
  global_index_file  \* index: global_search_index.json

pipeline == <<N, batch_size, pc, driver, scraped_df, scraped_csv, batch_status,
              batch_status_file, files, cur, idx, batch_results, log,
              completedCount, refetched, wasReset, runDispatch, midStop,
              crashedMid, resetSinceCrash, firstAfterCrash, writeFailed,
              finished, nfaults>>

pool == <<pool_size, style, available_drivers, busy_drivers, hstate,
          wpc, wdrv, reaper, closer, nfetch, passHist, lastAttempts>>

merging == <<master_projects, details, completed_batches, combined_json,
             merged_projects>>

indexing == <<index_input, indexed, global_index_file>>

post == <<merging, indexing>>

vars == <<pipeline, pool, post>>

Items == 0 .. (N - 1)

Min(a, b) == IF a < b THEN a ELSE b

\* values standing for "no file" / "not loaded" / None
NoTable == [i \in {} |-> 0]
NoStatus == [current_batch |-> 0, total_batches |-> 0, total_projects |-> 0,
             completed_batches |-> <<>>, batch_size |-> 0]
NoBatch == [batch_id |-> 0, start_index |-> 0, end_index |-> 0,
            project_count |-> 0, success_count |-> 0, failed_count |-> 0]

\* ------------------------------------------------------- BatchManager
\* _initialize_scraped_projects: the table created when no progress file exists
NewScrapedTable(n) ==
  [i \in 0 .. (n - 1) |->
     [scrape_status |-> PENDING, batch_id |-> 0, retry_count |-> 0,
      error_message |-> ""]]

\* _load_batch_status: total_batches of a fresh status
TotalBatches(n, b) == (n + b - 1) \div b

\* _load_batch_status: the status created when no status file exists
NewBatchStatus(n, b) ==
  [current_batch |-> 1, total_batches |-> TotalBatches(n, b),
   total_projects |-> n, completed_batches |-> <<>>, batch_size |-> b]

\* _load_batch_status that ignores the status file and starts over
LoadBatchStatus_Fresh(file, n, b) == NewBatchStatus(n, b)

\* _load_batch_status: the status after construction, given the file
LoadBatchStatus(file, n, b) ==
  IF file = NoStatus THEN NewBatchStatus(n, b) ELSE file

\* _initialize_scraped_projects: the table after construction, given the file
LoadScrapedTable(file, n) ==
  IF file = NoTable THEN NewScrapedTable(n) ELSE file

\* get_next_batch without the clamp of end_index to the catalog length
GetNextBatch_NoClamp(bs, n, b) ==
  IF bs.current_batch > bs.total_batches
    THEN NoBatch
    ELSE LET start_index == (bs.current_batch - 1) * b
             end_index == start_index + b
         IN [batch_id |-> bs.current_batch, start_index |-> start_index,
             end_index |-> end_index,
             project_count |-> end_index - start_index,
             success_count |-> 0, failed_count |-> 0]

\* get_next_batch
GetNextBatch(bs, n, b) ==
  IF bs.current_batch > bs.total_batches
    THEN NoBatch
    ELSE LET start_index == (bs.current_batch - 1) * b
             end_index == Min(start_index + b, n)
         IN [batch_id |-> bs.current_batch, start_index |-> start_index,
             end_index |-> end_index,
             project_count |-> end_index - start_index,
             success_count |-> 0, failed_count |-> 0]

\* the catalog positions of a batch: master_projects[start_index:end_index]
BatchItems(bi) == bi.start_index .. (bi.end_index - 1)

\* start_batch that marks every row up to the end of the batch
StartBatch_UpToEnd(df, bi) ==
  [i \in DOMAIN df |->
     IF i < bi.end_index
       THEN [df[i] EXCEPT !.scrape_status = PROCESSING,
                          !.batch_id = bi.batch_id]
       ELSE df[i]]

\* start_batch: the table after marking the batch's rows
StartBatch(df, bi) ==
  [i \in DOMAIN df |->
     IF i \in BatchItems(bi)
       THEN [df[i] EXCEPT !.scrape_status = PROCESSING,
                          !.batch_id = bi.batch_id]
       ELSE df[i]]

\* complete_project that does not count the failed attempt
CompleteProject_NoRetryCount(df, id, success) ==
  [i \in DOMAIN df |->
     IF i = id
       THEN IF success
              THEN [df[i] EXCEPT !.scrape_status = COMPLETED,
                                 !.error_message = ""]
              ELSE [df[i] EXCEPT !.scrape_status = FAILED,
                                 !.error_message = "err"]
       ELSE df[i]]

\* complete_project that records successes only
CompleteProject_SuccessOnly(df, id, success) ==
  [i \in DOMAIN df |->
     IF i = id /\ success
       THEN [df[i] EXCEPT !.scrape_status = COMPLETED,
                          !.error_message = ""]
       ELSE df[i]]

\* complete_project: the table after recording one item's outcome
CompleteProject(df, id, success) ==
  [i \in DOMAIN df |->
     IF i = id
       THEN IF success
              THEN [df[i] EXCEPT !.scrape_status = COMPLETED,
                                 !.error_message = ""]
              ELSE [df[i] EXCEPT !.scrape_status = FAILED,
                                 !.retry_count = @ + 1,
                                 !.error_message = "err"]
       ELSE df[i]]

\* reset_failed_projects that resets every unfinished row, not only failed ones
ResetFailedProjects_Unfinished(df) ==
  [i \in DOMAIN df |->
     IF df[i].scrape_status \in {FAILED, PROCESSING}
       THEN [df[i] EXCEPT !.scrape_status = PENDING, !.batch_id = 0,
                          !.error_message = ""]
       ELSE df[i]]

\* reset_failed_projects: the table after the bulk reset
ResetFailedProjects(df) ==
  [i \in DOMAIN df |->
     IF df[i].scrape_status = FAILED
       THEN [df[i] EXCEPT !.scrape_status = PENDING, !.batch_id = 0,
                          !.error_message = ""]
       ELSE df[i]]

\* get_failed_projects
GetFailedProjects(df) == {i \in DOMAIN df : df[i].scrape_status = FAILED}

\* get_progress_summary: counts by status
StatusCount(df, s) == Cardinality({i \in DOMAIN df : df[i].scrape_status = s})

\* get_progress_summary: progress_rate >= 100, where progress_rate is
\* round(completed / total * 100, 2): the rounded rate reaches 100 from
\* 99.995 on, i.e. when completed * 20000 >= 19999 * total
ProgressComplete(df, n) ==
  IF n > 0 THEN StatusCount(df, COMPLETED) * 20000 >= 19999 * n ELSE FALSE

\* complete_batch that appends the batch id without advancing the cursor
AdvanceBatchStatus_NoCursor(bs, bi) ==
  [bs EXCEPT !.completed_batches = Append(@, bi.batch_id)]

\* complete_batch: the batch status after a successful file write
AdvanceBatchStatus(bs, bi) ==
  [bs EXCEPT !.completed_batches = Append(@, bi.batch_id),
             !.current_batch = @ + 1]

\* complete_batch: the second in the latest file name of a batch (0: no file);
\* only the order of the seconds of one batch's files matters to the names
LatestStamp(fs, b) ==
  IF {f \in fs : f.batch_id = b} = {} THEN 0
  ELSE CHOOSE t \in {f.stamp : f \in {g \in fs : g.batch_id = b}} :
         \A f \in fs : f.batch_id = b => f.stamp <= t

\* complete_batch: the file set after writing name batch_<id>_<second>
WriteBatchFile(fs, bi, second, results, ok) ==
  {f \in fs : ~(f.batch_id = bi.batch_id /\ f.stamp = second)}
    \cup {[batch_id |-> bi.batch_id, stamp |-> second,
           projects |-> results, ok |-> ok]}

\* complete_batch that records the batch before its file is safely written
StatusAfterCompleteBatch_RecordFirst(bs, bi, writeOk) ==
  AdvanceBatchStatus(bs, bi)

\* complete_batch: the batch status when the call ends; a failed file write
\* re-raises before the status is touched
StatusAfterCompleteBatch(bs, bi, writeOk) ==
  IF writeOk THEN AdvanceBatchStatus(bs, bi) ELSE bs

\* complete_batch: the files when the call ends; a failed write leaves either
\* no file or a truncated one under the name it opened
FilesAfterCompleteBatch(fs, bi, second, results, writeOk) ==
  IF writeOk
    THEN {WriteBatchFile(fs, bi, second, results, TRUE)}
    ELSE {fs, WriteBatchFile(fs, bi, second, {}, FALSE)}

\* scrape_projects_parallel of the parallel scraper: the records it can
\* return for a batch (any subset of the batch's items succeeds)
ScrapeResults(bi) == SUBSET BatchItems(bi)

\* ------------------------------------------------------------ state groups
conf == <<N, batch_size>>
disk == <<scraped_csv, batch_status_file, files>>
mem == <<scraped_df, batch_status>>
work == <<cur, idx, batch_results>>
resetHist == <<wasReset, refetched>>
crashHist == <<crashedMid, resetSinceCrash, firstAfterCrash>>

\* the pipeline before its first run: no progress file, no status file
PipelineInit ==
  /\ N \in 1 .. MaxItems
  /\ batch_size \in 1 .. MaxBatchSize
  /\ pc = "off"
  /\ driver = "none"
  /\ scraped_df = NoTable
  /\ scraped_csv = NoTable
  /\ batch_status = NoStatus
  /\ batch_status_file = NoStatus
  /\ files = {}
  /\ cur = NoBatch
  /\ idx = 0
  /\ batch_results = {}
  /\ log = <<>>
  /\ completedCount = [i \in Items |-> 0]
  /\ refetched = {}
  /\ wasReset = {}
  /\ runDispatch = 0
  /\ midStop = FALSE
  /\ crashedMid = NoBatch
  /\ resetSinceCrash = FALSE
  /\ firstAfterCrash = 0
  /\ writeFailed = 0
  /\ finished = FALSE
  /\ nfaults = 0

\* no pool exists: get_global_pool was not called
NoPool ==
  /\ pool_size = 0
  /\ style = "none"
  /\ available_drivers = <<>>
  /\ busy_drivers = {}
  /\ hstate = <<>>
  /\ wpc = <<>>
  /\ wdrv = <<>>
  /\ reaper = [pc |-> "none", temp |-> <<>>, remove |-> <<>>]
  /\ closer = [pc |-> "none", copy |-> {}]
  /\ nfetch = 0
  /\ passHist = {}
  /\ lastAttempts = <<>>

\* values standing for "not written"
NotWritten == [written |-> FALSE, projects |-> <<>>]
NoIndexFile == [written |-> FALSE]

\* the merge and index variables while the pipeline or the pool is looked at
NoMerge ==
  /\ master_projects = <<>>
  /\ details = <<>>
  /\ completed_batches = <<>>
  /\ combined_json = NotWritten
  /\ merged_projects = NotWritten

NoIndex ==
  /\ index_input = <<>>
  /\ indexed = <<>>
  /\ global_index_file = NoIndexFile

Init == PipelineInit /\ NoPool /\ NoMerge /\ NoIndex

\* BatchManager.__init__: load or create the progress table and the status
Construct ==
  /\ scraped_df' = LoadScrapedTable(scraped_csv, N)
  /\ scraped_csv' = scraped_df'
  /\ batch_status' = LoadBatchStatus(batch_status_file, N, batch_size)
  /\ batch_status_file' = batch_status'

\* the batch in progress is dropped (the loop body is left)
DropBatch ==
  /\ cur' = NoBatch
  /\ idx' = 0
  /\ batch_results' = {}

\* the process ends: everything held in memory is gone
DropMemory ==
  /\ driver' = "none"
  /\ scraped_df' = NoTable
  /\ batch_status' = NoStatus
  /\ runDispatch' = 0
  /\ DropBatch

\* scraper_interactive.py main: EnhancedScraperV3() then run() shows the menu
StartInteractive ==
  /\ pc = "off"
  /\ Construct
  /\ pc' = "menu"
  /\ driver' = "interactive"
  /\ UNCHANGED <<conf, pool, post, files, work, log, completedCount, resetHist,
                 runDispatch, midStop, crashHist, writeFailed, finished,
                 nfaults>>

\* scraper_parallel.py main up to the loop: it returns when nothing is
\* pending, else it enters the loop
StartParallel ==
  /\ pc = "off"
  /\ Construct
  /\ IF StatusCount(scraped_df', PENDING) = 0
       THEN /\ pc' = "off"
            /\ driver' = "none"
       ELSE /\ pc' = "loop"
            /\ driver' = "parallel"
  /\ UNCHANGED <<conf, pool, post, files, work, log, completedCount, resetHist,
                 runDispatch, midStop, crashHist, writeFailed, finished,
                 nfaults>>

\* continue_scraping (menu choice 1): nothing to do at 100%, else run the loop
ContinueScraping ==
  /\ pc = "menu"
  /\ ~ProgressComplete(scraped_df, N)
  /\ pc' = "loop"
  /\ UNCHANGED <<conf, pool, post, driver, disk, mem, work, log, completedCount,
                 resetHist, runDispatch, midStop, crashHist, writeFailed,
                 finished, nfaults>>

\* retry_failed_projects (menu choice 3): bulk reset, then run the loop
RetryFailedProjects ==
  /\ pc = "menu"
  /\ GetFailedProjects(scraped_df) # {}
  /\ scraped_df' = ResetFailedProjects(scraped_df)
  /\ scraped_csv' = scraped_df'
  /\ pc' = "loop"
  /\ wasReset' = wasReset \cup GetFailedProjects(scraped_df)
  /\ refetched' = refetched \ GetFailedProjects(scraped_df)
  /\ resetSinceCrash' = TRUE
  /\ finished' = FALSE
  /\ UNCHANGED <<conf, pool, post, driver, batch_status, batch_status_file, files,
                 work, log, completedCount, runDispatch, midStop, crashedMid,
                 firstAfterCrash, writeFailed, nfaults>>

\* run (menu choice 6, or declining to go on): the process exits
Quit ==
  /\ pc = "menu"
  /\ pc' = "off"
  /\ DropMemory
  /\ UNCHANGED <<conf, pool, post, disk, log, completedCount, resetHist, midStop,
                 crashHist, writeFailed, finished, nfaults>>

\* top of the batch loop with a batch left: get_next_batch, then start_batch
Dispatch ==
  /\ pc = "loop"
  /\ LET bi == GetNextBatch(batch_status, N, batch_size) IN
       /\ bi # NoBatch
       /\ cur' = bi
       /\ idx' = bi.start_index
       /\ batch_results' = {}
       /\ scraped_df' = StartBatch(scraped_df, bi)
       /\ scraped_csv' = scraped_df'
       /\ runDispatch' = runDispatch + 1
       /\ firstAfterCrash' =
            IF crashedMid # NoBatch /\ firstAfterCrash = 0
              THEN bi.batch_id ELSE firstAfterCrash
  /\ pc' = IF driver = "interactive" THEN "items" ELSE "pscrape"
  /\ UNCHANGED <<conf, pool, post, driver, batch_status, batch_status_file, files,
                 log, completedCount, resetHist, midStop, crashedMid,
                 resetSinceCrash, writeFailed, finished, nfaults>>

\* top of the batch loop with get_next_batch returning None: the loop ends
LoopExit ==
  /\ pc = "loop"
  /\ GetNextBatch(batch_status, N, batch_size) = NoBatch
  /\ finished' = TRUE
  /\ IF driver = "interactive"
       THEN /\ pc' = "menu"
            /\ runDispatch' = 0
            /\ UNCHANGED <<driver, mem, work>>
       ELSE /\ pc' = "off"
            /\ DropMemory
  /\ UNCHANGED <<conf, pool, post, disk, log, completedCount, resetHist, midStop,
                 crashHist, writeFailed, nfaults>>

\* _process_batch item loop: one item fetched, complete_project persists it
FetchItem ==
  /\ pc = "items"
  /\ idx < cur.end_index
  /\ \E ok \in BOOLEAN :
       /\ scraped_df' = CompleteProject(scraped_df, idx, ok)
       /\ batch_results' = IF ok THEN batch_results \cup {idx}
                           ELSE batch_results
       /\ completedCount' = IF ok
                              THEN [completedCount EXCEPT ![idx] = @ + 1]
                              ELSE completedCount
  /\ scraped_csv' = scraped_df'
  /\ refetched' = refetched \cup ({idx} \cap wasReset)
  /\ idx' = idx + 1
  /\ UNCHANGED <<conf, pool, post, pc, driver, batch_status, batch_status_file, files,
                 cur, log, wasReset, runDispatch, midStop, crashHist,
                 writeFailed, finished, nfaults>>

\* complete_batch as called with batch bi and its records at second `second`
\* (the merge it runs when the number of recorded batches is a multiple of 5
\* only rewrites combined_projects.json, which is not part of this state)
CompleteBatch(bi, results, second, writeOk) ==
  /\ files' \in FilesAfterCompleteBatch(files, bi, second, results, writeOk)
  /\ batch_status' = StatusAfterCompleteBatch(batch_status, bi, writeOk)
  /\ batch_status_file' = IF writeOk THEN batch_status' ELSE batch_status_file
  /\ log' = IF writeOk
              THEN Append(log, [batch_id |-> bi.batch_id,
                                start_index |-> bi.start_index,
                                end_index |-> bi.end_index])
              ELSE log
  /\ writeFailed' = IF writeOk THEN 0 ELSE bi.batch_id
  /\ runDispatch' = IF writeOk THEN 0 ELSE runDispatch
  /\ nfaults' = IF writeOk THEN nfaults ELSE nfaults + 1

\* _process_batch after the item loop: counts set, complete_batch, back to
\* the loop whether it returned True or caught the error
FinishBatch ==
  /\ pc = "items"
  /\ idx = cur.end_index
  /\ \E writeOk \in BOOLEAN :
       /\ writeOk \/ nfaults < MaxFaults
       /\ CompleteBatch([cur EXCEPT
                           !.success_count = Cardinality(batch_results),
                           !.failed_count =
                              cur.project_count - Cardinality(batch_results)],
                        batch_results,
                        LatestStamp(files, cur.batch_id) + 1, writeOk)
  /\ pc' = "loop"
  /\ DropBatch
  /\ UNCHANGED <<conf, pool, post, driver, scraped_df, scraped_csv, completedCount,
                 resetHist, midStop, crashHist, finished>>

\* scraper_parallel.py loop body after start_batch: scrape, complete_batch
ParallelBatch ==
  /\ pc = "pscrape"
  /\ \E results \in ScrapeResults(cur), writeOk \in BOOLEAN,
        second \in {LatestStamp(files, cur.batch_id),
                    LatestStamp(files, cur.batch_id) + 1} :
       /\ second > 0
       /\ writeOk \/ nfaults < MaxFaults
       /\ CompleteBatch(cur, results, second, writeOk)
  /\ refetched' = refetched \cup (BatchItems(cur) \cap wasReset)
  /\ pc' = "loop"
  /\ DropBatch
  /\ UNCHANGED <<conf, pool, post, driver, scraped_df, scraped_csv, completedCount,
                 wasReset, midStop, crashHist, finished>>

\* scraper_parallel.py loop body: scrape_projects_parallel raises, `continue`
ParallelScrapeRaises ==
  /\ pc = "pscrape"
  /\ nfaults < MaxFaults
  /\ nfaults' = nfaults + 1
  /\ pc' = "loop"
  /\ DropBatch
  /\ UNCHANGED <<conf, pool, post, driver, disk, mem, log, completedCount, resetHist,
                 runDispatch, midStop, crashHist, writeFailed, finished>>

\* the process is killed (or the parallel script is interrupted)
Crash ==
  /\ pc # "off"
  /\ nfaults < MaxFaults
  /\ nfaults' = nfaults + 1
  /\ pc' = "off"
  /\ DropMemory
  /\ IF pc \in {"items", "pscrape"}
       THEN /\ midStop' = TRUE
            /\ crashedMid' = cur
            /\ resetSinceCrash' = FALSE
            /\ firstAfterCrash' = 0
       ELSE UNCHANGED <<midStop, crashHist>>
  /\ UNCHANGED <<conf, pool, post, disk, log, completedCount, resetHist, writeFailed,
                 finished>>

\* _run_scraping_loop: KeyboardInterrupt is caught, back to the menu
Interrupt ==
  /\ driver = "interactive"
  /\ pc \in {"loop", "items"}
  /\ nfaults < MaxFaults
  /\ nfaults' = nfaults + 1
  /\ midStop' = (midStop \/ pc = "items")
  /\ pc' = "menu"
  /\ runDispatch' = 0
  /\ DropBatch
  /\ UNCHANGED <<conf, pool, post, driver, disk, mem, log, completedCount, resetHist,
                 crashHist, writeFailed, finished>>

Next ==
  \/ StartInteractive
  \/ StartParallel
  \/ ContinueScraping
  \/ RetryFailedProjects
  \/ Quit
  \/ Dispatch
  \/ LoopExit
  \/ FetchItem
  \/ FinishBatch
  \/ ParallelBatch
  \/ ParallelScrapeRaises
  \/ Crash
  \/ Interrupt

Spec == Init /\ [][Next]_vars

\* Scheduling the pipeline relies on: a started loop keeps taking its steps,
\* a stopped pipeline is run again, and the operator at the menu chooses to
\* continue whenever that keeps being offered.  Crashes, interrupts and
\* batch-level failures are finitely many (MaxFaults).
Fairness ==
  /\ WF_vars(Dispatch)
  /\ WF_vars(LoopExit)
  /\ WF_vars(FetchItem)
  /\ WF_vars(FinishBatch)
  /\ WF_vars(ParallelBatch)
  /\ WF_vars(StartInteractive \/ StartParallel)
  /\ SF_vars(ContinueScraping)

SpecFair == Init /\ [][Next]_vars /\ Fairness

\* ================================================================ pool
\* ------------------------------------------------------------ DriverPool
Handles == 1 .. MaxHandles
Workers == 1 .. max_workers

\* which code fetches through the pool: the item loop of
\* scraper_interactive.py (one thread, get_driver / return_driver), workers
\* going through get_driver_context, and the thread pool of
\* project_scraper_optimized.py (`with pool.get_driver() as driver`)
Styles == {"interactive", "context", "optimized"}

\* the threads that fetch: the interactive item loop is a single thread,
\* the other two run max_workers threads
Threads(s) == IF s = "interactive" THEN {1} ELSE Workers

\* the members of a queue
Range(q) == {q[i] : i \in 1 .. Len(q)}

\* Queue.full() of a Queue(maxsize=size)
QueueFull(q, size) == Len(q) >= size

\* Queue.get that hands out the head without taking it off the queue
QueueGet_Peek(q) == q

\* Queue.get: the queue after its head was taken
QueueGet(q) == Tail(q)

\* _is_driver_alive: driver.current_url answers; any exception is False
IsDriverAlive(hs, h) == hs[h] = "alive"

\* _close_driver: driver.quit(), errors swallowed
CloseDriver(hs, h) == [hs EXCEPT ![h] = "quit"]

\* _close_driver over a set of handles
CloseDrivers(hs, S) == [h \in DOMAIN hs |-> IF h \in S THEN "quit" ELSE hs[h]]

\* _return_driver that clears the busy mark only of a live handle
BusyAfterReturn_AliveOnly(busy, h, alive) ==
  IF alive THEN busy \ {h} ELSE busy

\* _return_driver: busy_drivers after the call, on each of its three paths
BusyAfterReturn(busy, h, alive) == busy \ {h}

\* _create_driver that gives up after the first strategy
CreateDriver_NoFallback(primaryOk, fallbackOk) ==
  IF primaryOk
    THEN [driver |-> TRUE, attempts |-> <<"chromedriver">>]
    ELSE [driver |-> FALSE, attempts |-> <<"chromedriver">>]

\* _create_driver: the local chromedriver first; when that raises,
\* webdriver-manager; when that raises too, the first error is raised
CreateDriver(primaryOk, fallbackOk) ==
  IF primaryOk
    THEN [driver |-> TRUE, attempts |-> <<"chromedriver">>]
    ELSE IF fallbackOk
      THEN [driver |-> TRUE,
            attempts |-> <<"chromedriver", "webdriver-manager">>]
      ELSE [driver |-> FALSE,
            attempts |-> <<"chromedriver", "webdriver-manager">>]

\* a handle not created yet (when none is left, creation fails)
FreeIds == {h \in Handles : hstate[h] = "none"}
NewHandle == CHOOSE h \in FreeIds : \A g \in FreeIds : h <= g

\* history: handles other threads took from the queue during the pass are
\* no longer the cleanup pass's to answer for
Taken(S) == passHist \ S

workers == <<wpc, wdrv>>
queueing == <<available_drivers, busy_drivers>>
poolConf == <<pool_size, style, nfetch>>

\* DriverPool.__init__: _initialize_pool has put the handles it could create
\* (each creation may fail) in the queue and the cleanup thread is started
PoolStart ==
  /\ pool_size \in 1 .. MaxPoolSize
  /\ style \in Styles
  /\ \E k \in 0 .. pool_size :
       /\ available_drivers = [i \in 1 .. k |-> i]
       /\ hstate = [h \in Handles |-> IF h <= k THEN "alive" ELSE "none"]
  /\ busy_drivers = {}
  /\ wpc = [w \in Workers |-> "idle"]
  /\ wdrv = [w \in Workers |-> 0]
  /\ reaper = [pc |-> "sleep", temp |-> <<>>, remove |-> <<>>]
  /\ closer = [pc |-> "ready", copy |-> {}]
  /\ nfetch = 0
  /\ passHist = {}
  /\ lastAttempts = [w \in Workers |-> <<>>]

\* the pipeline's variables while only the pool is looked at
NoPipeline ==
  /\ PipelineInit
  /\ N = 1
  /\ batch_size = 1

PoolInit == NoPipeline /\ PoolStart /\ NoMerge /\ NoIndex

\* a worker thread starts a fetch: _scrape_single_project /
\* scrape_project_detail is entered and calls get_driver (close_all comes
\* when the run is given up: no fetch is started after it)
StartFetch(w) ==
  /\ w \in Threads(style)
  /\ wpc[w] = "idle"
  /\ closer.pc = "ready"
  /\ nfetch < MaxFetches
  /\ nfetch' = nfetch + 1
  /\ wpc' = [wpc EXCEPT ![w] = "get"]
  /\ UNCHANGED <<pipeline, post, pool_size, style, queueing, hstate, wdrv, reaper,
                 closer, passHist, lastAttempts>>

\* get_driver: available_drivers.get(timeout) returns an idle handle
GetFromQueue(w) ==
  /\ wpc[w] = "get"
  /\ available_drivers # <<>>
  /\ wdrv' = [wdrv EXCEPT ![w] = Head(available_drivers)]
  /\ available_drivers' = QueueGet(available_drivers)
  /\ wpc' = [wpc EXCEPT ![w] = "mark"]
  /\ passHist' = Taken({Head(available_drivers)})
  /\ UNCHANGED <<pipeline, post, poolConf, busy_drivers, hstate, reaper, closer,
                 lastAttempts>>

\* get_driver: the queue stays empty until the timeout, Empty is caught and
\* _create_driver runs; its error leaves get_driver
GetTimeout(w) ==
  /\ wpc[w] = "get"
  /\ available_drivers = <<>>
  /\ \E primaryOk, fallbackOk \in BOOLEAN :
       LET c == CreateDriver(primaryOk, fallbackOk) IN
         /\ lastAttempts' = [lastAttempts EXCEPT ![w] = c.attempts]
         /\ c.driver => FreeIds # {}
         /\ IF c.driver
              THEN /\ hstate' = [hstate EXCEPT ![NewHandle] = "alive"]
                   /\ wdrv' = [wdrv EXCEPT ![w] = NewHandle]
                   /\ wpc' = [wpc EXCEPT ![w] = "mark"]
              ELSE /\ wpc' = [wpc EXCEPT ![w] = "raised"]
                   /\ UNCHANGED <<hstate, wdrv>>
  /\ UNCHANGED <<pipeline, post, poolConf, queueing, reaper, closer, passHist>>

\* get_driver: busy_drivers.add under the lock, last_used set, return
MarkBusy(w) ==
  /\ wpc[w] = "mark"
  /\ busy_drivers' = busy_drivers \cup {wdrv[w]}
  /\ wpc' = [wpc EXCEPT ![w] = "use"]
  /\ lastAttempts' = [lastAttempts EXCEPT ![w] = <<>>]
  /\ UNCHANGED <<pipeline, post, poolConf, available_drivers, hstate, wdrv,
                 reaper, closer, passHist>>

\* the error of get_driver reaches the fetch function, whose except clause
\* turns it into "no record"
AcquireRaised(w) ==
  /\ wpc[w] = "raised"
  /\ wpc' = [wpc EXCEPT ![w] = "idle"]
  /\ lastAttempts' = [lastAttempts EXCEPT ![w] = <<>>]
  /\ UNCHANGED <<pipeline, post, poolConf, queueing, hstate, wdrv, reaper, closer,
                 passHist>>

\* scrape_project_detail: `with self.driver_pool.get_driver() as driver`
\* parses the page; the with block is over the handle itself, so its end
\* quits the handle whatever the outcome, and the pool is not told
ExtractWith(w) ==
  /\ wpc[w] = "use"
  /\ style = "optimized"
  /\ hstate' = CloseDriver(hstate, wdrv[w])
  /\ wpc' = [wpc EXCEPT ![w] = "idle"]
  /\ wdrv' = [wdrv EXCEPT ![w] = 0]
  /\ UNCHANGED <<pipeline, post, poolConf, queueing, reaper, closer, passHist,
                 lastAttempts>>

\* _scrape_single_project from the page load to the put of _return_driver
\* (the same for the body and exit of a get_driver_context block): the page
\* is loaded and parsed with the handle and, whether that gives a record,
\* nothing or an exception, the finally clause calls _return_driver: the
\* liveness probe (the browser may have died meanwhile), then the busy mark
\* is cleared; a handle that is not alive is closed, and so is a live one
\* when available_drivers.full()
ProbeAndDiscard(w) ==
  /\ \E died \in BOOLEAN :
       LET h == wdrv[w]
           alive == ~died /\ IsDriverAlive(hstate, h)
       IN /\ busy_drivers' = BusyAfterReturn(busy_drivers, h, alive)
          /\ IF alive /\ ~QueueFull(available_drivers, pool_size)
               THEN /\ wpc' = [wpc EXCEPT ![w] = "put"]
                    /\ UNCHANGED <<hstate, wdrv>>
               ELSE /\ hstate' = CloseDriver(hstate, h)
                    /\ wpc' = [wpc EXCEPT ![w] = "idle"]
                    /\ wdrv' = [wdrv EXCEPT ![w] = 0]
  /\ UNCHANGED <<pipeline, post, poolConf, available_drivers, reaper, closer,
                 passHist, lastAttempts>>

\* the finally clause of a fetch calls _return_driver with the handle
ReturnCheck(w) ==
  /\ wpc[w] = "use"
  /\ style # "optimized"
  /\ ProbeAndDiscard(w)

\* _return_driver: available_drivers.put(driver), which waits while the
\* queue holds maxsize handles
ReturnPut(w) ==
  /\ wpc[w] = "put"
  /\ Len(available_drivers) < pool_size
  /\ available_drivers' = Append(available_drivers, wdrv[w])
  /\ wpc' = [wpc EXCEPT ![w] = "idle"]
  /\ wdrv' = [wdrv EXCEPT ![w] = 0]
  /\ UNCHANGED <<pipeline, post, poolConf, busy_drivers, hstate, reaper, closer,
                 passHist, lastAttempts>>

\* the handles of a queue that are in a set, in queue order
Select(q, S) == SelectSeq(q, LAMBDA h : h \in S)

\* _cleanup_idle_drivers: the sleep ends, current_time is read and the
\* queue is emptied into drivers_to_remove (old: the idle handles whose
\* last_used is more than max_idle_time before current_time, which depends
\* on how long the handles have waited) and temp_drivers (the loop over
\* get_nowait is taken as one step)
ReaperWake ==
  /\ reaper.pc = "sleep"
  /\ \E old \in SUBSET Range(available_drivers) :
       /\ reaper' = [pc |-> "putback",
                     temp |-> Select(available_drivers,
                                     Range(available_drivers) \ old),
                     remove |-> Select(available_drivers, old)]
       /\ passHist' = Range(available_drivers) \ old
  /\ available_drivers' = <<>>
  /\ UNCHANGED <<pipeline, post, poolConf, busy_drivers, hstate, workers, closer,
                 lastAttempts>>

\* _cleanup_idle_drivers: one turn of `for driver in temp_drivers: put`,
\* which waits while the queue holds maxsize handles
ReaperPutBack ==
  /\ reaper.pc = "putback"
  /\ IF reaper.temp = <<>>
       THEN /\ reaper' = [reaper EXCEPT !.pc = "finish"]
            /\ UNCHANGED available_drivers
       ELSE /\ Len(available_drivers) < pool_size
            /\ available_drivers' = Append(available_drivers,
                                           Head(reaper.temp))
            /\ reaper' = [reaper EXCEPT !.temp = Tail(@)]
  /\ UNCHANGED <<pipeline, post, poolConf, busy_drivers, hstate, workers, closer,
                 passHist, lastAttempts>>

\* _cleanup_idle_drivers: the handles to remove are closed, then one handle
\* is created when the queue is empty and nothing is busy; a failed creation
\* is printed; back to sleep
ReaperFinish ==
  /\ reaper.pc = "finish"
  /\ LET closed == CloseDrivers(hstate, Range(reaper.remove)) IN
       IF available_drivers = <<>> /\ busy_drivers = {}
         THEN \E primaryOk, fallbackOk \in BOOLEAN :
                IF CreateDriver(primaryOk, fallbackOk).driver /\ FreeIds # {}
                  THEN /\ hstate' = [closed EXCEPT ![NewHandle] = "alive"]
                       /\ available_drivers' = <<NewHandle>>
                  ELSE /\ hstate' = closed
                       /\ UNCHANGED available_drivers
         ELSE /\ hstate' = closed
              /\ UNCHANGED available_drivers
  /\ reaper' = [pc |-> "sleep", temp |-> <<>>, remove |-> <<>>]
  /\ passHist' = {}
  /\ UNCHANGED <<pipeline, post, poolConf, busy_drivers, workers, closer,
                 lastAttempts>>

\* close_all, first part: the queue is emptied and its handles are closed,
\* then busy_drivers is copied. The interactive loop calls it from the
\* thread that fetches and project_scraper_optimized.py after its executor
\* has joined the workers, so there no fetch is under way; a caller of the
\* pool's own interface may call it from any thread at any time
CloseAllIdle ==
  /\ closer.pc = "ready"
  /\ style # "context" => \A w \in Workers : wpc[w] = "idle"
  /\ hstate' = CloseDrivers(hstate, Range(available_drivers))
  /\ available_drivers' = <<>>
  /\ closer' = [pc |-> "busy", copy |-> busy_drivers]
  /\ passHist' = Taken(Range(available_drivers))
  /\ UNCHANGED <<pipeline, post, poolConf, busy_drivers, workers, reaper,
                 lastAttempts>>

\* close_all, second part: the copied handles are closed, busy_drivers is
\* cleared
CloseAllBusy ==
  /\ closer.pc = "busy"
  /\ hstate' = CloseDrivers(hstate, closer.copy)
  /\ busy_drivers' = {}
  /\ closer' = [pc |-> "closed", copy |-> {}]
  /\ UNCHANGED <<pipeline, post, poolConf, available_drivers, workers, reaper,
                 passHist, lastAttempts>>

PoolNext ==
  \/ \E w \in Workers : StartFetch(w)
  \/ \E w \in Workers : GetFromQueue(w)
  \/ \E w \in Workers : GetTimeout(w)
  \/ \E w \in Workers : MarkBusy(w)
  \/ \E w \in Workers : AcquireRaised(w)
  \/ \E w \in Workers : ExtractWith(w)
  \/ \E w \in Workers : ReturnCheck(w)
  \/ \E w \in Workers : ReturnPut(w)
  \/ ReaperWake
  \/ ReaperPutBack
  \/ ReaperFinish
  \/ CloseAllIdle
  \/ CloseAllBusy

PoolSpec == PoolInit /\ [][PoolNext]_vars

\* -------------------------------------------- a handle returned twice
\* return_driver is public and keeps no record of what was handed out: a
\* caller may return a handle it has returned already (return_driver inside
\* a get_driver_context block, say). The first call ends like ReturnPut,
\* the caller keeps the reference
ReturnPutKeep(w) ==
  /\ wpc[w] = "put"
  /\ style # "optimized"
  /\ Len(available_drivers) < pool_size
  /\ available_drivers' = Append(available_drivers, wdrv[w])
  /\ wpc' = [wpc EXCEPT ![w] = "again"]
  /\ UNCHANGED <<pipeline, post, poolConf, busy_drivers, hstate, wdrv, reaper,
                 closer, passHist, lastAttempts>>

\* the caller's second return_driver(driver) with the same handle
ReturnAgain(w) ==
  /\ wpc[w] = "again"
  /\ ProbeAndDiscard(w)

PoolNextTwice ==
  \/ PoolNext
  \/ \E w \in Workers : ReturnPutKeep(w)
  \/ \E w \in Workers : ReturnAgain(w)

PoolSpecTwice == PoolInit /\ [][PoolNextTwice]_vars

\* =============================================================== merge
\* ------------------------------------- batch files to consolidated set
\* the keys a catalog row and a scraped record have in common
CatalogKeys == {"url", "title", "brand", "agency", "publish_date"}

\* what a scraped record carries under those keys: the catalog's value
\* (copied when the item was fetched), another value (read off the page, or
\* the catalog row was updated since), or no such key
RecordShapes ==
  {[k \in CatalogKeys |-> "excel"],
   [k \in CatalogKeys |-> "web"],
   [k \in CatalogKeys |-> IF k = "brand" THEN "web" ELSE "missing"]}

\* a catalog row of master_projects.csv
MasterRow(i) == [project_id |-> i, over |-> [k \in CatalogKeys |-> "excel"]]

\* the record of item i fetched in the attempt of second t: data stands for
\* the scraped fields (description, images, category, keywords, ...)
ScrapedRecord(i, shape, t) == [id |-> i, over |-> shape, data |-> t]

\* a set of ids as a list in increasing order
SortedSeq(S) ==
  CHOOSE s \in [1 .. Cardinality(S) -> S] :
    /\ Range(s) = S
    /\ \A a, b \in 1 .. Cardinality(S) : a < b => s[a] < s[b]

\* every order a set can be listed in (os.listdir gives an arbitrary one)
Orders(S) == {s \in [1 .. Cardinality(S) -> S] : Range(s) = S}

\* the batch files complete_batch can have left for a catalog of n items in
\* batches of b: details/batch_<id>_<second>.json holding the records of
\* the items that succeeded, or not parseable (ok FALSE: cut short by a
\* failed write, or damaged since)
BatchFileNames(n, b) == (1 .. ((n + b - 1) \div b)) \X (1 .. MaxAttempts)

BatchFileOf(name, ok, ids, shape) ==
  [batch_id |-> name[1], stamp |-> name[2], ok |-> ok,
   projects |-> IF ok
                  THEN [j \in 1 .. Cardinality(ids) |->
                          ScrapedRecord(SortedSeq(ids)[j], shape, name[2])]
                  ELSE <<>>]

\* the items of batch id for a catalog of n items in batches of b
ItemsOfBatch(id, n, b) == ((id - 1) * b + 1) .. Min(id * b, n)

\* _merge_completed_data: the files whose name starts with batch_<id>_, in
\* listdir order
FilesOfBatch(listing, id) == SelectSeq(listing, LAMBDA f : f.batch_id = id)

\* _merge_completed_data: batch_files[-1], the last one listed
PickedFile(listing, id) ==
  LET fs == FilesOfBatch(listing, id) IN fs[Len(fs)]

\* _merge_completed_data: combined_data, the records of the picked file of
\* each completed batch; a file that does not load is printed and skipped
RECURSIVE CombinedData(_, _)
CombinedData(listing, completed) ==
  IF completed = <<>> THEN <<>>
  ELSE LET id == Head(completed)
           rest == CombinedData(listing, Tail(completed))
       IN IF FilesOfBatch(listing, id) = <<>> THEN rest
          ELSE IF PickedFile(listing, id).ok
                 THEN PickedFile(listing, id).projects \o rest
                 ELSE rest

\* next((p for p in combined_data if p.get('id') == project_id), None):
\* the position of the first record of the id (0: None)
FirstMatch(combined, id) ==
  IF \E j \in 1 .. Len(combined) : combined[j].id = id
    THEN CHOOSE j \in 1 .. Len(combined) :
           /\ combined[j].id = id
           /\ \A k \in 1 .. (j - 1) : combined[k].id # id
    ELSE 0

\* _merge_completed_data: final_data, one entry per catalog row with the
\* catalog's values and, when a record was found, its scraped fields
\* (data 0: none)
MergeCompletedData(master, listing, completed) ==
  LET combined == CombinedData(listing, completed) IN
    [i \in 1 .. Len(master) |->
       [id |-> master[i].project_id,
        over |-> master[i].over,
        data |-> IF FirstMatch(combined, master[i].project_id) = 0 THEN 0
                 ELSE combined[FirstMatch(combined,
                                          master[i].project_id)].data]]

\* _load_all_batch_data: the records of every file that loads, in listdir
\* order
RECURSIVE LoadAllBatchData(_)
LoadAllBatchData(listing) ==
  IF listing = <<>> THEN <<>>
  ELSE (IF Head(listing).ok THEN Head(listing).projects ELSE <<>>)
         \o LoadAllBatchData(Tail(listing))

\* _merge_data: project.get(key, master_info.get(key, ''))
MergedValue(record, master, k) ==
  IF record.over[k] # "missing" THEN record.over[k]
  ELSE IF \E i \in 1 .. Len(master) : master[i].project_id = record.id
         THEN "excel"
         ELSE ""

\* _merge_data: one entry per loaded record
MergeData(batch_projects, master) ==
  [j \in 1 .. Len(batch_projects) |->
     [id |-> batch_projects[j].id,
      over |-> [k \in CatalogKeys |->
                  MergedValue(batch_projects[j], master, k)],
      data |-> batch_projects[j].data]]

\* a catalog, the batch files some runs have left in output/details (at
\* most MaxFiles of them) in the order listdir gives them, and the
\* completed_batches list of batch_status.json: a prefix of the batches,
\* each of which has a file
MergeStart ==
  \E n \in 1 .. MaxMergeItems, b \in 1 .. MaxBatchSize, shape \in RecordShapes :
    /\ master_projects = [i \in 1 .. n |-> MasterRow(i)]
    /\ \E names \in SUBSET BatchFileNames(n, b) :
         /\ Cardinality(names) <= MaxFiles
         /\ \E content \in [names -> BOOLEAN \X SUBSET (1 .. n)] :
              /\ \A nm \in names :
                   /\ content[nm][2] \subseteq ItemsOfBatch(nm[1], n, b)
                   /\ ~content[nm][1] => content[nm][2] = {}
              /\ details \in Orders({BatchFileOf(nm, content[nm][1],
                                                 content[nm][2], shape) :
                                       nm \in names})
         /\ \E k \in 0 .. ((n + b - 1) \div b) :
              /\ \A id \in 1 .. k : \E nm \in names : nm[1] = id
              /\ completed_batches = [id \in 1 .. k |-> id]
    /\ combined_json = NotWritten
    /\ merged_projects = NotWritten

MergeInit == NoPipeline /\ NoPool /\ MergeStart /\ NoIndex

\* _merge_completed_data: combined_projects.json is written
MergeCompleted ==
  /\ combined_json' =
       [written |-> TRUE,
        projects |-> MergeCompletedData(master_projects, details,
                                        completed_batches)]
  /\ UNCHANGED <<pipeline, pool, indexing, master_projects, details, completed_batches,
                 merged_projects>>

\* regenerate_all: nothing is done when no record was loaded; else the
\* merged list goes into the index files
RegenerateAll ==
  /\ LoadAllBatchData(details) # <<>>
  /\ merged_projects' =
       [written |-> TRUE,
        projects |-> MergeData(LoadAllBatchData(details), master_projects)]
  /\ UNCHANGED <<pipeline, pool, indexing, master_projects, details, completed_batches,
                 combined_json>>

MergeNext ==
  \/ MergeCompleted
  \/ RegenerateAll

MergeSpec == MergeInit /\ [][MergeNext]_vars


\* ======================================================================
\* The global search index (data_converter.py)
\* ======================================================================
\* A string is the sequence of its characters.  A Latin letter or a sign
\* stands for itself; a Chinese character is named by its code point
\* ("u54c1" is U+54C1).  A JSON value is a record: its type and, for a
\* string, its characters.

None == [type |-> "none", s |-> <<>>]
\* a number that is not zero (pandas gives nan for an empty cell)
Float == [type |-> "float", s |-> <<>>]
Str(s) == [type |-> "str", s |-> s]

\* Python's truth value of a JSON value
Truthy(v) == v.type = "float" \/ (v.type = "str" /\ v.s # <<>>)

\* str.lower(): the capital letters that occur in the drawn values
LowerChar(c) ==
  CASE c = "A" -> "a"
    [] c = "N" -> "n"
    [] OTHER -> c

Lower(s) == [i \in 1 .. Len(s) |-> LowerChar(s[i])]

\* str.strip(): what is left between the first and the last character
\* that is not white space
Strip(s) ==
  LET solid == {i \in 1 .. Len(s) : s[i] # " "} IN
    IF solid = {} THEN <<>>
    ELSE SubSeq(s, CHOOSE i \in solid : \A j \in solid : i <= j,
                   CHOOSE i \in solid : \A j \in solid : j <= i)

\* keyword in title
Contains(word, title) ==
  \E i \in 1 .. Len(title) - Len(word) + 1 :
    SubSeq(title, i, i + Len(word) - 1) = word

marketing_keywords ==
  << <<"u54c1", "u724c">>,
     <<"u8425", "u9500">>,
     <<"u5e7f", "u544a">>,
     <<"u63a8", "u5e7f">>,
     <<"u6d3b", "u52a8">>,
     <<"u521b", "u610f">>,
     <<"u8bbe", "u8ba1">>,
     <<"u4f20", "u64ad">>,
     <<"u5ba3", "u4f20">>,
     <<"u53d1", "u5e03">>,
     <<"u4e0a", "u5e02">>,
     <<"u65b0", "u54c1">>,
     <<"u4fc3", "u9500">>,
     <<"u8282", "u65e5">>,
     <<"u6570", "u5b57", "u5316">>,
     <<"u793e", "u4ea4">>,
     <<"u5a92", "u4f53">>,
     <<"u5185", "u5bb9">>,
     <<"u89c6", "u9891">>,
     <<"u76f4", "u64ad">>,
     <<"u7535", "u5546">>,
     <<"u96f6", "u552e">>,
     <<"u6d88", "u8d39", "u8005">>,
     <<"u7528", "u6237">>,
     <<"u4f53", "u9a8c">>,
     <<"u4e92", "u52a8">> >>

\* found_keywords[:5]
TitleKeywordLimit == 5

\* _extract_title_keywords
ExtractTitleKeywords(title) ==
  IF title = <<>> THEN <<>>
  ELSE LET found_keywords ==
             SelectSeq(marketing_keywords, LAMBDA keyword : Contains(keyword, title))
       IN SubSeq(found_keywords, 1, Min(TitleKeywordLimit, Len(found_keywords)))

\* len(publish_date) >= 7 and publish_date[:7]
YearMonthLen == 7

\* index[key].append(project_id) on a defaultdict(list)
AppendTo(index, key, project_id) ==
  [k \in DOMAIN index \cup {key} |->
     IF k = key
       THEN (IF key \in DOMAIN index THEN index[key] ELSE <<>>) \o <<project_id>>
       ELSE index[k]]

\* the fields indexed by "if value and isinstance(value, str) and
\* value.strip()" under value.lower()
ScalarFields == {"brand", "agency", "category", "industry", "campaign_type"}

\* the same without the test of value.strip()
ScalarIndexed_NoStrip(index, project, field) ==
  LET value == project[field] IN
    IF Truthy(value) /\ value.type = "str"
      THEN AppendTo(index, Lower(value.s), project.id)
      ELSE index

ScalarIndexed(index, project, field) ==
  LET value == project[field] IN
    IF Truthy(value) /\ value.type = "str" /\ Strip(value.s) # <<>>
      THEN AppendTo(index, Lower(value.s), project.id)
      ELSE index

\* for keyword in keywords: if isinstance(keyword, str): ...
RECURSIVE KeywordsIndexed(_, _, _)
KeywordsIndexed(index, keywords, project_id) ==
  IF keywords = <<>> THEN index
  ELSE KeywordsIndexed(
         IF Head(keywords).type = "str"
           THEN AppendTo(index, Lower(Head(keywords).s), project_id)
           ELSE index,
         Tail(keywords), project_id)

\* for keyword in title_keywords: keyword_index[keyword.lower()].append(id)
RECURSIVE TitleIndexed(_, _, _)
TitleIndexed(index, title_keywords, project_id) ==
  IF title_keywords = <<>> THEN index
  ELSE TitleIndexed(AppendTo(index, Lower(Head(title_keywords)), project_id),
                    Tail(title_keywords), project_id)

\* the date index; len() of a value that is not a string raises and the
\* bare except passes
DateIndexed(index, project) ==
  LET publish_date == project.publish_date IN
    IF Truthy(publish_date) /\ publish_date.type = "str"
       /\ Len(publish_date.s) >= YearMonthLen
      THEN AppendTo(index, SubSeq(publish_date.s, 1, YearMonthLen), project.id)
      ELSE index

IndexNames == {"brand_index", "agency_index", "category_index",
               "industry_index", "campaign_type_index", "keyword_index",
               "date_index"}

IndexOfField(field) ==
  CASE field = "brand" -> "brand_index"
    [] field = "agency" -> "agency_index"
    [] field = "category" -> "category_index"
    [] field = "industry" -> "industry_index"
    [] field = "campaign_type" -> "campaign_type_index"

\* the body of the loop over the projects, for one project
ProjectIndexed(indices, project) ==
  [name \in IndexNames |->
     CASE name = "keyword_index" ->
            TitleIndexed(
              KeywordsIndexed(indices[name], project.keywords, project.id),
              IF Truthy(project.title) THEN ExtractTitleKeywords(project.title.s)
                                       ELSE <<>>,
              project.id)
       [] name = "date_index" -> DateIndexed(indices[name], project)
       [] OTHER ->
            ScalarIndexed(indices[name], project,
                          CHOOSE field \in ScalarFields : IndexOfField(field) = name)]

RECURSIVE BuildIndices(_, _)
BuildIndices(indices, projects) ==
  IF projects = <<>> THEN indices
  ELSE BuildIndices(ProjectIndexed(indices, Head(projects)), Tail(projects))

\* _generate_global_search_index: what it writes
GlobalSearchIndex(projects) ==
  [written |-> TRUE,
   total_projects |-> Len(projects),
   indices |-> BuildIndices([name \in IndexNames |-> <<>>], projects)]

\* ------------------------------------------------------- drawn inputs
MaxRecords == 2

BlankProject ==
  [id |-> 0, brand |-> None, agency |-> None, category |-> None,
   industry |-> None, campaign_type |-> None, keywords |-> <<>>,
   publish_date |-> None, title |-> Str(<<>>)]

ScalarValues ==
  {Float, Str(<<>>), Str(<<" ">>), Str(<<"N", "k">>), Str(<<"n", "k">>)}

KeywordLists ==
  { <<>>,
    <<Str(<<"A", "b">>)>>,
    <<Str(<<"a", "b">>), Str(<<"A", "b">>)>>,
    <<Str(marketing_keywords[1])>>,
    <<Str(<<>>), Float>> }

\* no marketing word, one, and six of them
Titles ==
  { Str(<<>>),
    Str(<<"N", "k">> \o marketing_keywords[1]),
    Str(marketing_keywords[1] \o marketing_keywords[2] \o marketing_keywords[3]
          \o marketing_keywords[5] \o marketing_keywords[6]
          \o marketing_keywords[7]) }

PublishDates ==
  { Str(<<"2", "0", "2", "4">>),
    Str(<<"2", "0", "2", "4", "-", "0", "1">>),
    Str(<<"2", "0", "2", "4", "-", "0", "1", "-", "1", "5">>),
    Float }

\* projects with one part filled in: the five scalar fields (all with the
\* same value, or two of them with values that differ in case), the
\* keywords list and the title, or the publish date
SampleProjects ==
  {[BlankProject EXCEPT !.brand = v, !.agency = v, !.category = v,
                        !.industry = v, !.campaign_type = v] :
     v \in ScalarValues}
    \cup {[BlankProject EXCEPT !.brand = Str(<<"N", "k">>),
                               !.agency = Str(<<"n", "k">>)]}
    \cup {[BlankProject EXCEPT !.keywords = ks] : ks \in KeywordLists}
    \cup {[BlankProject EXCEPT !.keywords = ks, !.title = t] :
            ks \in {<<>>, <<Str(marketing_keywords[1])>>},
            t \in Titles \ {Str(<<>>)}}
    \cup {[BlankProject EXCEPT !.publish_date = dt] : dt \in PublishDates}

\* ids are unique in combined_projects.json (one entry per catalog row)
Numbered(projects) ==
  [i \in 1 .. Len(projects) |-> [projects[i] EXCEPT !.id = i]]

IndexStart ==
  /\ \E n \in 1 .. MaxRecords :
       \E projects \in [1 .. n -> SampleProjects] :
         index_input = Numbered(projects)
  /\ indexed = <<>>
  /\ global_index_file = NoIndexFile

IndexInit == NoPipeline /\ NoPool /\ NoMerge /\ IndexStart

\* convert_all: the index of the projects of combined_projects.json
ConvertAll ==
  /\ index_input # <<>>
  /\ indexed' = index_input
  /\ global_index_file' = GlobalSearchIndex(index_input)
  /\ UNCHANGED <<pipeline, pool, merging, index_input>>

\* update_indices_incrementally(new_projects): the index of the projects
\* of the newest batches alone
UpdateIndicesIncrementally ==
  \E first \in 1 .. Len(index_input) :
    LET new_projects == SubSeq(index_input, first, Len(index_input)) IN
      /\ indexed' = new_projects
      /\ global_index_file' = GlobalSearchIndex(new_projects)
      /\ UNCHANGED <<pipeline, pool, merging, index_input>>

IndexNext ==
  \/ ConvertAll
  \/ UpdateIndicesIncrementally

IndexSpec == IndexInit /\ [][IndexNext]_vars


\* ------------------------------------------------------------------ C1
\* k = ceil(N / B), stated without the code's formula
CeilBatches == CHOOSE k \in 0 .. N : (k - 1) * batch_size < N
                                     /\ N <= k * batch_size

\* C1: the batches handed to a successful complete_batch are, in order,
\* [0,B), [B,2B), ..., [(k-1)B, N): the j-th one has id j and covers
\* [(j-1)B, min(jB, N)); there are never more than k of them; once k are
\* completed every catalog index lies in exactly one of them and
\* get_next_batch returns None, from memory and from the reloaded file.
C1_BatchRanges ==
  /\ Len(log) <= CeilBatches
  /\ \A j \in 1 .. Len(log) :
       /\ log[j].batch_id = j
       /\ log[j].start_index = (j - 1) * batch_size
       /\ log[j].end_index = Min(j * batch_size, N)
  /\ Len(log) = CeilBatches =>
       /\ \A i \in Items :
            Cardinality({j \in 1 .. Len(log) : i \in BatchItems(log[j])}) = 1
       /\ GetNextBatch(LoadBatchStatus(batch_status_file, N, batch_size),
                       N, batch_size) = NoBatch
       /\ pc # "off" => GetNextBatch(batch_status, N, batch_size) = NoBatch

\* C1 witness: 3 items in batches of 2, both batches completed, the second
\* one short, and the loop has seen None
C1_Witness ==
  /\ N = 3 /\ batch_size = 2
  /\ Len(log) = 2
  /\ log[2].end_index - log[2].start_index = 1
  /\ finished

\* ------------------------------------------------------------------ C2
\* C2 as stated: after a crash between start_batch and complete_batch, and
\* with no operator reset since, the batch loop never again has that batch
\* dispatched for fetching.
C2_NeverRedispatched ==
  (crashedMid # NoBatch /\ ~resetSinceCrash /\ pc \in {"items", "pscrape"})
    => cur.batch_id # crashedMid.batch_id

\* C2 amended: after such a crash no item of the batch is pending in the
\* persisted table (in_progress, or completed/failed when its fetch had
\* finished); the first batch the loop dispatches afterwards is that same
\* batch, and its dispatch marks every item of it in_progress again, with
\* no operator reset in between.
C2_RedispatchedSameBatch ==
  /\ (crashedMid # NoBatch /\ firstAfterCrash = 0 /\ ~resetSinceCrash
        /\ pc = "off")
       => \A i \in BatchItems(crashedMid) :
            scraped_csv[i].scrape_status \in {PROCESSING, COMPLETED, FAILED}
  /\ crashedMid # NoBatch => firstAfterCrash \in {0, crashedMid.batch_id}
  /\ (crashedMid # NoBatch /\ ~resetSinceCrash
        /\ pc \in {"items", "pscrape"} /\ idx = cur.start_index
        /\ cur.batch_id = crashedMid.batch_id)
       => /\ cur.start_index = crashedMid.start_index
          /\ cur.end_index = crashedMid.end_index
          /\ \A i \in BatchItems(crashedMid) :
               scraped_csv[i].scrape_status = PROCESSING

\* C2 witness: the crashed batch is dispatched again without a reset and one
\* of its items has been fetched again
C2_Witness ==
  /\ crashedMid # NoBatch
  /\ ~resetSinceCrash
  /\ firstAfterCrash = crashedMid.batch_id
  /\ pc = "items"
  /\ cur.batch_id = crashedMid.batch_id
  /\ idx > cur.start_index

\* ------------------------------------------------------------------ C3
\* C3: when the only stops are crashes between batches (none hit a batch in
\* progress), no item is brought to completed more than once over the whole
\* history of runs.
C3_CompletedAtMostOnce ==
  ~midStop => \A i \in Items : completedCount[i] <= 1

\* ------------------------------------------------------------------ C4
\* every batch is recorded: get_next_batch on the persisted status is None
AllBatchesDone ==
  /\ batch_status_file # NoStatus
  /\ GetNextBatch(batch_status_file, N, batch_size) = NoBatch

\* C4: under fair scheduling and finitely many crashes and restarts the
\* pipeline eventually reaches the point where every catalog item has been
\* dispatched in a batch, every batch is recorded and get_next_batch returns
\* None.
C4_EventuallyFinished ==
  <>(AllBatchesDone /\ \A i \in Items :
                         \E j \in 1 .. Len(log) : i \in BatchItems(log[j]))

\* ------------------------------------------------------------------ C5
\* the status changes the state machine allows
AllowedChange ==
  {<<PENDING, PROCESSING>>, <<PROCESSING, COMPLETED>>,
   <<PROCESSING, FAILED>>, <<FAILED, PENDING>>}

\* C5: every change of an item's persisted status is pending -> in_progress,
\* in_progress -> completed, in_progress -> failed or failed -> pending, and
\* failed -> pending happens only in the bulk reset.
C5_StatusTransitions ==
  [][\A i \in Items :
       (scraped_csv # NoTable /\ scraped_csv' # NoTable
          /\ scraped_csv'[i].scrape_status # scraped_csv[i].scrape_status)
         => /\ <<scraped_csv[i].scrape_status,
                 scraped_csv'[i].scrape_status>> \in AllowedChange
            /\ (scraped_csv'[i].scrape_status = PENDING)
                 => RetryFailedProjects]_vars

\* the status changes start_batch makes when a batch is dispatched again
RedispatchChange ==
  {<<COMPLETED, PROCESSING>>, <<FAILED, PROCESSING>>}

\* C5 amended: every change of an item's persisted status is
\* pending -> in_progress, in_progress -> completed, in_progress -> failed,
\* failed -> pending, or completed -> in_progress / failed -> in_progress;
\* a change to pending happens only in the bulk reset and a change to
\* in_progress only in start_batch at the dispatch of the item's batch,
\* which marks every item of the batch whatever its status.
C5_StatusTransitionsWithRedispatch ==
  [][\A i \in Items :
       (scraped_csv # NoTable /\ scraped_csv' # NoTable
          /\ scraped_csv'[i].scrape_status # scraped_csv[i].scrape_status)
         => /\ <<scraped_csv[i].scrape_status,
                 scraped_csv'[i].scrape_status>>
                   \in AllowedChange \cup RedispatchChange
            /\ (scraped_csv'[i].scrape_status = PENDING)
                 => RetryFailedProjects
            /\ (scraped_csv'[i].scrape_status = PROCESSING)
                 => (Dispatch /\ i \in BatchItems(cur'))]_vars

\* C5 witness: an item that had been completed is in_progress again, and an
\* item that had failed was reset to pending
C5_Witness ==
  /\ scraped_csv # NoTable
  /\ \E i \in Items : /\ completedCount[i] >= 1
                      /\ scraped_csv[i].scrape_status = PROCESSING
  /\ \E i \in wasReset : scraped_csv[i].scrape_status = PENDING

\* ------------------------------------------------------------------ C6
\* the intact batch files holding a record of item i
RecordFiles(i) == {f \in files : f.ok /\ i \in f.projects}

\* C6: in every persisted state each catalog item has exactly one status
\* row and every completed item has exactly one record in a batch file.
C6_CompletedHasRecord ==
  scraped_csv # NoTable =>
    /\ DOMAIN scraped_csv = Items
    /\ \A i \in Items :
         scraped_csv[i].scrape_status = COMPLETED
           => Cardinality(RecordFiles(i)) = 1

\* ------------------------------------------------------------------ C7
\* the catalog positions of batch number j
RangeOfBatch(j) ==
  ((j - 1) * batch_size) .. (Min(j * batch_size, N) - 1)

\* C7: every item of every batch recorded in the persisted completed list
\* has a terminal status.
C7_ClosedBatchTerminal ==
  \A k \in 1 .. Len(batch_status_file.completed_batches) :
    \A i \in RangeOfBatch(batch_status_file.completed_batches[k]) :
      scraped_csv[i].scrape_status \in {COMPLETED, FAILED}

\* ------------------------------------------------------------------ C8
\* C8: once the loop run after a reset has ended with get_next_batch
\* returning None, every item that was reset has had a new fetch attempt.
C8_ResetItemsRefetched ==
  finished => wasReset \subseteq refetched

\* ------------------------------------------------------------------ C9
\* C9: within one run of the batch loop, with no operator action in between,
\* the number of dispatches of one batch has a bound of its own: it does not
\* grow with the number of batch-level failures (MaxFaults of them can
\* happen here, so a batch would be dispatched at most MaxFaults times).
C9_BoundedAutoRetry ==
  runDispatch <= MaxFaults

\* ----------------------------------------------------------------- C10
\* C10: after a failed batch file write in complete_batch the scheduler
\* state is as before the call: the persisted status still has the cursor
\* at the failed batch and lists exactly the batches before it, the status
\* in memory equals the persisted one, and the batch the loop works on next
\* is the failed batch, not a later one.
C10_FailedWriteLeavesStatus ==
  writeFailed # 0 =>
    /\ batch_status_file.current_batch = writeFailed
    /\ batch_status_file.completed_batches = [j \in 1 .. (writeFailed - 1) |-> j]
    /\ pc # "off" => batch_status = batch_status_file
    /\ pc \in {"items", "pscrape"} => cur.batch_id = writeFailed

\* C10 witness: the write of batch 2 failed and the loop has dispatched
\* batch 2 again
C10_Witness ==
  /\ writeFailed = 2
  /\ pc \in {"items", "pscrape"}
  /\ cur.batch_id = 2
  /\ runDispatch = 2

\* ----------------------------------------------------------------- C11
\* C11: at every moment every item whose persisted status is in_progress
\* belongs to the batch at the persisted scheduler cursor; no item of an
\* earlier or later batch is in_progress.
C11_SingleActiveBatch ==
  scraped_csv # NoTable =>
    \A i \in Items :
      scraped_csv[i].scrape_status = PROCESSING
        => i \in RangeOfBatch(batch_status_file.current_batch)

\* ----------------------------------------------------------------- C12
\* a status whose list has no batch id twice and whose cursor is one past
\* the number of recorded ids
ListMatchesCursor(bs) ==
  /\ \A j, k \in 1 .. Len(bs.completed_batches) :
       bs.completed_batches[j] = bs.completed_batches[k] => j = k
  /\ bs.current_batch = Len(bs.completed_batches) + 1

\* C12: over complete_batch calls, failures and restarts the completed
\* list, persisted and in memory, never holds a batch id twice, the cursor
\* equals the number of recorded ids plus one, and every step leaves the
\* persisted list as it was or appends to it (no recorded id is removed).
C12_CompletedListAppendOnly ==
  /\ [](/\ batch_status_file # NoStatus => ListMatchesCursor(batch_status_file)
        /\ batch_status # NoStatus => ListMatchesCursor(batch_status))
  /\ [][/\ Len(batch_status_file'.completed_batches)
             >= Len(batch_status_file.completed_batches)
        /\ \A j \in 1 .. Len(batch_status_file.completed_batches) :
             batch_status_file'.completed_batches[j]
               = batch_status_file.completed_batches[j]]_vars

\* C12 witness: a batch was cut short by a crash, the pipeline was restarted
\* and two batches are recorded since
C12_Witness ==
  /\ crashedMid # NoBatch
  /\ pc # "off"
  /\ Len(batch_status_file.completed_batches) = 2
  /\ batch_status = batch_status_file

\* ----------------------------------------------------------------- C13
BothStrategies == <<"chromedriver", "webdriver-manager">>

\* C13: get_driver on an empty queue does not fail because the pool is at
\* capacity: when the wait ends it creates a handle beyond pool_size, and it
\* raises only when both creation strategies failed; whenever get_driver
\* returns, the handle it returns is in busy_drivers and not in the queue.
C13_AcquireCreatesOverflow ==
  [][\A w \in Workers :
       /\ (wpc[w] = "mark" /\ wpc'[w] = "use")
            => /\ wdrv'[w] \in busy_drivers'
               /\ wdrv'[w] \notin Range(available_drivers')
       /\ (wpc[w] = "get" /\ available_drivers = <<>> /\ wpc'[w] # "get")
            => \/ /\ wpc'[w] = "mark"
                  /\ hstate[wdrv'[w]] = "none"
                  /\ hstate'[wdrv'[w]] = "alive"
               \/ /\ wpc'[w] = "raised"
                  /\ lastAttempts'[w] = BothStrategies]_vars

\* a worker holds a handle created while pool_size handles were busy
C13_Witness ==
  \E w \in Workers :
    /\ wpc[w] = "use"
    /\ wdrv[w] \in busy_drivers
    /\ wdrv[w] > pool_size
    /\ Cardinality(busy_drivers) > pool_size

\* ----------------------------------------------------------------- C14
\* C14: _return_driver takes the handle out of busy_drivers on each of its
\* paths (probe answers, probe fails, an error is raised); a live handle is
\* put in the queue only while the queue holds fewer than pool_size
\* handles, every other handle is quit; the queue never holds more than
\* pool_size handles.
C14_ReleaseClearsBusy ==
  /\ [](Len(available_drivers) <= pool_size)
  /\ [][\A w \in Workers :
          /\ (style # "optimized" /\ wpc[w] = "use" /\ wpc'[w] # "use")
               => /\ wdrv[w] \notin busy_drivers'
                  /\ wpc'[w] = "put"
                       => /\ IsDriverAlive(hstate, wdrv[w])
                          /\ Len(available_drivers) < pool_size
                  /\ wpc'[w] # "put"
                       => /\ hstate'[wdrv[w]] = "quit"
                          /\ wdrv[w] \notin Range(available_drivers')
          /\ (wpc[w] = "put" /\ wpc'[w] # "put")
               => /\ Len(available_drivers) < pool_size
                  /\ available_drivers' = Append(available_drivers, wdrv[w])
                  /\ wdrv[w] \notin busy_drivers']_vars

\* one handle was quit by a release and another, alive, is on its way back
\* to the queue, neither is busy any more
C14_Witness ==
  /\ closer.pc = "ready"
  /\ reaper.pc = "sleep"
  /\ \E w \in Workers :
       /\ wpc[w] = "put"
       /\ wdrv[w] \notin busy_drivers
       /\ \E h \in Handles \ {wdrv[w]} :
            hstate[h] = "quit" /\ h \notin busy_drivers

\* ----------------------------------------------------------------- C15
\* C15: whatever the interleaving of get_driver, _return_driver, cleanup
\* passes and close_all, no handle that was quit is in the queue (so
\* get_driver never hands out a handle the pool has quit).
C15_NoQuitHandleIdle ==
  \A h \in Range(available_drivers) : hstate[h] = "alive"

\* the same while close_all has not been called
C15_NoQuitHandleIdleBeforeClose ==
  closer.pc = "ready" =>
    \A h \in Range(available_drivers) : hstate[h] = "alive"

\* ----------------------------------------------------------------- C16
\* C16: every handle a fetch worker took is given back to the pool, so
\* when the workers are through with their items (no fetch under way) no
\* handle is left in busy_drivers; for the interactive item loop and for
\* the thread pool of project_scraper_optimized.py alike.
C16_NoneBusyAfterBatch ==
  (\A w \in Workers : wpc[w] = "idle") => busy_drivers = {}

\* the same for the workers that go through return_driver
C16_NoneBusyAfterBatchReturned ==
  (style # "optimized" /\ \A w \in Workers : wpc[w] = "idle")
    => busy_drivers = {}

\* ----------------------------------------------------------------- C17
\* C17: neither _return_driver nor the cleanup pass ever waits on a full
\* queue: a thread that found the queue not full and is about to put (and
\* the cleanup thread putting back the handles it took out) finds room.
C17_PutNeverBlocks ==
  /\ \A w \in Workers :
       wpc[w] = "put" => ~QueueFull(available_drivers, pool_size)
  /\ (reaper.pc = "putback" /\ reaper.temp # <<>>)
       => ~QueueFull(available_drivers, pool_size)

\* ----------------------------------------------------------------- C18
\* what a finished cleanup pass leaves: the handles it found idle and old
\* are quit and out of the queue, the handles it found idle and fresh (and
\* no other thread took since) are in the queue, and with nothing busy the
\* queue holds a live handle unless the creation of one just failed
PassLeaves ==
  /\ \A h \in Range(reaper.remove) :
       hstate'[h] = "quit" /\ h \notin Range(available_drivers')
  /\ passHist \subseteq Range(available_drivers')
  /\ busy_drivers = {}
       => \/ available_drivers' = <<>>
          \/ \E h \in Range(available_drivers') : hstate'[h] = "alive"

\* C18: after each cleanup pass every idle handle that was unused for more
\* than max_idle_time when the pass began is quit and no longer idle, every
\* other idle handle is still idle, and when no handle is busy (creation
\* succeeding) the queue holds at least one live handle.
C18_ReaperPass ==
  [][(reaper.pc = "finish" /\ reaper'.pc = "sleep") => PassLeaves]_vars

\* the same for the passes that end with no quit handle in the queue
C18_ReaperPassNoQuitIdle ==
  [][(reaper.pc = "finish" /\ reaper'.pc = "sleep" /\ C15_NoQuitHandleIdle')
       => PassLeaves]_vars

\* ----------------------------------------------------------------- C19
\* C19: when the first creation strategy fails, the second one is tried,
\* once; when both fail get_driver raises to its caller and leaves the
\* queue and busy_drivers as they were, with no new handle anywhere.
C19_FallbackOnceThenRaise ==
  [][\A w \in Workers :
       /\ (wpc[w] = "get" /\ wpc'[w] = "raised")
            => /\ lastAttempts'[w] = BothStrategies
               /\ UNCHANGED <<available_drivers, busy_drivers, hstate, wdrv>>
       /\ (wpc[w] = "get" /\ wpc'[w] = "mark" /\ available_drivers = <<>>)
            => lastAttempts'[w] \in {<<"chromedriver">>, BothStrategies}
       /\ (wpc[w] = "raised" /\ wpc'[w] # "raised")
            => /\ wpc'[w] = "idle"
               /\ UNCHANGED <<available_drivers, busy_drivers, hstate, wdrv>>]_vars

\* get_driver has raised after both strategies failed
C19_Witness ==
  \E w \in Workers :
    /\ wpc[w] = "raised"
    /\ lastAttempts[w] = BothStrategies
    /\ wdrv[w] = 0

C24_BatchFilesNeverOverwritten ==
  [][\A f \in files : f \in files']_vars

\* the same for the interactive loop, whose attempts for one batch are
\* more than a second apart
C24_BatchFilesNeverOverwrittenInteractive ==
  [][driver = "interactive" => \A f \in files : f \in files']_vars

\* ----------------------------------------------------------------- C27
\* C27: start_batch sets the rows of the batch's index range, and no other
\* row, to processing with the batch's id, leaves every other column of
\* those rows alone, has written the table to scraped_projects.csv when it
\* returns, and a second call with the same batch changes nothing.
C27_StartBatchExactRange ==
  [][(pc = "loop" /\ pc' \in {"items", "pscrape"})
       => /\ \A i \in Items :
               IF i \in cur'.start_index .. (cur'.end_index - 1)
                 THEN scraped_df'[i] =
                        [scraped_df[i] EXCEPT
                           !.scrape_status = PROCESSING,
                           !.batch_id = cur'.batch_id]
                 ELSE scraped_df'[i] = scraped_df[i]
          /\ scraped_csv' = scraped_df'
          /\ StartBatch(scraped_df', cur') = scraped_df']_vars

\* a batch was just started while a row outside it is completed or failed
\* and a row inside it had been fetched before
C27_Witness ==
  /\ pc \in {"items", "pscrape"}
  /\ idx = cur.start_index
  /\ \A i \in BatchItems(cur) : scraped_df[i].scrape_status = PROCESSING
  /\ \E i \in BatchItems(cur) : scraped_df[i].retry_count > 0
  /\ \E i \in Items \ BatchItems(cur) :
       scraped_df[i].scrape_status \in {COMPLETED, FAILED}

\* ----------------------------------------------------------------- C28
\* C28: complete_project changes the row of its item only: on success the
\* status becomes completed, the error message is emptied and retry_count
\* stays; on failure the status becomes failed, retry_count grows by one
\* and the error message is stored; when it returns scraped_projects.csv
\* holds the table that is in memory.
C28_CompleteProjectOneRow ==
  [][(pc = "items" /\ idx' = idx + 1)
       => /\ \A i \in Items \ {idx} : scraped_df'[i] = scraped_df[i]
          /\ \/ scraped_df'[idx] =
                  [scraped_df[idx] EXCEPT !.scrape_status = COMPLETED,
                                          !.error_message = ""]
             \/ /\ scraped_df'[idx] =
                     [scraped_df[idx] EXCEPT
                        !.scrape_status = FAILED,
                        !.retry_count = scraped_df[idx].retry_count + 1,
                        !.error_message = scraped_df'[idx].error_message]
                /\ scraped_df'[idx].error_message # ""
          /\ scraped_csv' = scraped_df']_vars

\* an item that had failed before was fetched again and succeeded, next to
\* an item that failed
C28_Witness ==
  /\ pc = "items"
  /\ idx > cur.start_index
  /\ scraped_csv = scraped_df
  /\ \E i \in Items :
       /\ scraped_df[i].scrape_status = COMPLETED
       /\ scraped_df[i].retry_count > 0
       /\ scraped_df[i].error_message = ""
  /\ \E i \in Items :
       /\ scraped_df[i].scrape_status = FAILED
       /\ scraped_df[i].retry_count > 0

\* ----------------------------------------------------------------- C29
\* C29: whatever the interleaving of get_driver and return_driver calls of
\* concurrent workers, a handle returned twice included, no handle is held
\* by two workers at once and no handle is in the queue and in busy_drivers
\* at once.
C29_NoSharedHandle ==
  /\ \A v, w \in Workers :
       (v # w /\ wpc[v] \in {"mark", "use"} /\ wpc[w] \in {"mark", "use"})
         => wdrv[v] # wdrv[w]
  /\ busy_drivers \cap Range(available_drivers) = {}

\* ----------------------------------------------------------------- C30
\* C30 (the part on close_global_pool; get_global_pool creates the pool
\* under _pool_lock): once close_all has returned, every handle of the
\* pool, in the queue or in busy_drivers, is quit.
C30_ClosedPoolHasNoLiveHandle ==
  closer.pc = "closed" =>
    \A h \in Range(available_drivers) \cup busy_drivers : hstate[h] = "quit"

\* ----------------------------------------------------------------- C21
\* the records the parseable files of a listing hold for an id
RecordsOf(listing, id) ==
  {r \in UNION {Range(f.projects) : f \in {g \in Range(listing) : g.ok}} :
     r.id = id}

\* the scraped fields of the most recent of them
LatestData(listing, id) ==
  CHOOSE t \in {r.data : r \in RecordsOf(listing, id)} :
    \A r \in RecordsOf(listing, id) : r.data <= t

\* the files of the completed batches
CompletedFiles ==
  SelectSeq(details, LAMBDA f : f.batch_id \in Range(completed_batches))

\* the batch manager's merge keeps, for an id some file of a completed
\* batch has a record of, the scraped fields of the most recent record
MergeCompletedKeepsLatest ==
  combined_json.written =>
    \A j \in 1 .. Len(combined_json.projects) :
      LET e == combined_json.projects[j] IN
        /\ \A k \in 1 .. Len(combined_json.projects) :
             combined_json.projects[k].id = e.id => k = j
        /\ RecordsOf(CompletedFiles, e.id) # {}
             => e.data = LatestData(CompletedFiles, e.id)

\* the index regenerator's merge has one entry per id, with the scraped
\* fields of the most recent record
RegenerateKeepsLatest ==
  merged_projects.written =>
    \A j \in 1 .. Len(merged_projects.projects) :
      LET e == merged_projects.projects[j] IN
        /\ \A k \in 1 .. Len(merged_projects.projects) :
             merged_projects.projects[k].id = e.id => k = j
        /\ e.data = LatestData(details, e.id)

\* C21: when several batch files hold a record of the same id, the merged
\* set has exactly one entry for the id and its scraped fields are those of
\* the most recent record (the latest-written file), in the batch manager's
\* merge and in the index regenerator's.
C21_MergeKeepsLatest ==
  MergeCompletedKeepsLatest /\ RegenerateKeepsLatest

\* ----------------------------------------------------------------- C22
\* the values a merged list has under the keys of the catalog are the
\* catalog's
CatalogWins(out) ==
  out.written =>
    \A j \in 1 .. Len(out.projects) :
      (\E i \in 1 .. Len(master_projects) :
         master_projects[i].project_id = out.projects[j].id)
        => \A k \in CatalogKeys : out.projects[j].over[k] = "excel"

\* C22: in every merged record the value under a key the catalog row and
\* the scraped record share is the catalog's, in both merges.
C22_CatalogWins ==
  CatalogWins(combined_json) /\ CatalogWins(merged_projects)

\* the same for the batch manager's merge alone
C22_CatalogWinsInCombined == CatalogWins(combined_json)

\* ----------------------------------------------------------------- C23
\* with a batch file that does not parse among the listed ones, a merged
\* list has scraped fields for every id that a parseable one of the given
\* files holds a record of
KeepsParseable(out, listing) ==
  (out.written /\ \E f \in Range(details) : ~f.ok)
    => \A f \in Range(listing) :
         f.ok => \A r \in Range(f.projects) :
                   \E j \in 1 .. Len(out.projects) :
                     /\ out.projects[j].id = r.id
                     /\ out.projects[j].data # 0

\* C23: a batch file that does not parse is skipped and the merge is still
\* written, with the records of every other, parseable batch file (for the
\* batch manager's merge: of the completed batches), in both merges.
C23_UnparseableFileSkipped ==
  /\ KeepsParseable(combined_json, CompletedFiles)
  /\ KeepsParseable(merged_projects, details)

\* the same for the index regenerator's merge alone
C23_UnparseableFileSkippedInRegenerate ==
  KeepsParseable(merged_projects, details)


\* ----------------------------------------------------------------- C25
\* the ids listed under a key of an index
IdsUnder(index, key) ==
  IF key \in DOMAIN index THEN Range(index[key]) ELSE {}

\* the index of a field, the date index included
IndexOf(field) ==
  IF field = "publish_date" THEN "date_index" ELSE IndexOfField(field)

\* a project has key as its value of a scalar field: a string with a
\* character that is not white space, lower-cased
HasScalar(project, field, key) ==
  /\ project[field].type = "str"
  /\ \E i \in 1 .. Len(project[field].s) : project[field].s[i] # " "
  /\ Lower(project[field].s) = key

\* a project has key among its keywords: a string of the list, lower-cased
HasKeyword(project, key) ==
  \E i \in 1 .. Len(project.keywords) :
    /\ project.keywords[i].type = "str"
    /\ Lower(project.keywords[i].s) = key

\* key is one of the first five marketing words, in the order of the
\* list, that the title contains
TitleHas(project, key) ==
  \E p \in 1 .. Len(marketing_keywords) :
    /\ Contains(marketing_keywords[p], project.title.s)
    /\ Cardinality({q \in 1 .. (p - 1) :
                      Contains(marketing_keywords[q], project.title.s)})
         < TitleKeywordLimit
    /\ Lower(marketing_keywords[p]) = key

\* key is the year and month of the publish date: its first seven
\* characters, when it has that many
HasYearMonth(project, key) ==
  /\ project.publish_date.type = "str"
  /\ Len(project.publish_date.s) >= YearMonthLen
  /\ Len(key) = YearMonthLen
  /\ \A i \in 1 .. YearMonthLen : key[i] = project.publish_date.s[i]

\* a project belongs under a key of an index
BelongsUnder(project, name, key) ==
  CASE name = "keyword_index" -> HasKeyword(project, key) \/ TitleHas(project, key)
    [] name = "date_index" -> HasYearMonth(project, key)
    [] OTHER -> \E field \in ScalarFields :
                  IndexOfField(field) = name /\ HasScalar(project, field, key)

\* the keys a project belongs under
KeysOf(project, name) ==
  CASE name = "keyword_index" ->
         {Lower(project.keywords[i].s) :
            i \in {j \in 1 .. Len(project.keywords) :
                     project.keywords[j].type = "str"}}
           \cup {key \in {Lower(marketing_keywords[p]) :
                            p \in 1 .. Len(marketing_keywords)} :
                   TitleHas(project, key)}
    [] name = "date_index" ->
         {SubSeq(project.publish_date.s, 1, YearMonthLen) : x \in
            {y \in {1} : project.publish_date.type = "str"
                         /\ Len(project.publish_date.s) >= YearMonthLen}}
    [] OTHER ->
         {Lower(project[field].s) :
            field \in {g \in ScalarFields :
                         IndexOfField(g) = name
                         /\ HasScalar(project, g, Lower(project[g].s))}}

C26_BucketsAreSets ==
  global_index_file.written =>
    \A name \in IndexNames :
      \A key \in DOMAIN global_index_file.indices[name] :
        LET bucket == global_index_file.indices[name][key] IN
          \A i, j \in 1 .. Len(bucket) : bucket[i] = bucket[j] => i = j

\* the same for the indexes other than the keyword index
C26_ScalarBucketsAreSets ==
  global_index_file.written =>
    \A name \in IndexNames \ {"keyword_index"} :
      \A key \in DOMAIN global_index_file.indices[name] :
        LET bucket == global_index_file.indices[name][key] IN
          \A i, j \in 1 .. Len(bucket) : bucket[i] = bucket[j] => i = j

====
